---- MODULE Spec2Model ----
(***************************************************************************)
(* Numerical core of the LXe-Phonon notebooks: the integrand f of the      *)
(* fundamental solution, the cutoff / subinterval estimator (k_0, Npts),   *)
(* the Simpson integrator (simps_point, simps), the point integral F, the  *)
(* grid samplers F_range / F_slice, the closed-form point source           *)
(* (p, signal_noise) and mesh_wrapper of the convolution notebook.         *)
(*                                                                         *)
(* Numbers.  A Python or numpy number is a record:                         *)
(*   [tag |-> "num", p, q, d, np]  the real number (p + q * 1e-4)/d with   *)
(*                        integers p, q, d, d > 0, 0 <= q < 10000 and      *)
(*                        gcd(p,q,d) = 1 (the 1e-4 part is what becomes of *)
(*                        the lower bound 1e-4 of F); np says whether it   *)
(*                        is a numpy float64 (TRUE) or a plain Python      *)
(*                        int/float (FALSE)                                *)
(*   [tag |-> "nan"], [tag |-> "inf", s]   the float64 specials            *)
(*   [tag |-> "sym", s, e]  a float64 whose value is kept symbolic: s is a *)
(*                        sign factor (1 or -1) and e names the expression *)
(*                        and its arguments.  IEEE negation, product and   *)
(*                        quotient are exact in the sign, so the sign is   *)
(*                        carried apart from the magnitude expression      *)
(*   [tag |-> "complex"]  a Python complex (negative float ** 0.5)         *)
(*   [tag |-> "raise", exc]  the evaluation raised the Python exception    *)
(* Arithmetic on reals is exact (float rounding is not modelled).          *)
(***************************************************************************)
EXTENDS Integers, Sequences, FiniteSets, TLC

Abs(x) == IF x < 0 THEN -x ELSE x
Sgn(x) == IF x < 0 THEN -1 ELSE 1

RECURSIVE GCD(_, _)
GCD(a, b) == IF b = 0 THEN a ELSE GCD(b, a % b)

\* 1e-4 = 1/KMinInv, the lower integration bound written in F
KMinInv == 10000

\* (p + q * 1e-4)/d in normal form (d # 0): the sign goes to the numerator,
\* whole multiples of 1e-4 go from q to p, common factors are removed
Make(p, q, d, g, np) == [tag |-> "num", p |-> p \div g, q |-> q \div g, d |-> d \div g, np |-> np]
Reduce(p, q, d, np) == Make(p, q, d, GCD(GCD(Abs(p), q), d), np)
Real(p, q, d, np) ==
    Reduce(Sgn(d) * p + ((Sgn(d) * q) \div KMinInv), (Sgn(d) * q) % KMinInv, Sgn(d) * d, np)

Py(n, d) == Real(n, 0, d, FALSE)
PyInt(n) == [tag |-> "num", p |-> n, q |-> 0, d |-> 1, np |-> FALSE]
Zero64 == [tag |-> "num", p |-> 0, q |-> 0, d |-> 1, np |-> TRUE]
One64 == [tag |-> "num", p |-> 1, q |-> 0, d |-> 1, np |-> TRUE]
NaN == [tag |-> "nan"]
Inf(s) == [tag |-> "inf", s |-> s]
Sym(s, e) == [tag |-> "sym", s |-> s, e |-> e]
Complex == [tag |-> "complex"]
Raise(exc) == [tag |-> "raise", exc |-> exc]
None == [tag |-> "none"]

IsNum(x) == x.tag = "num"
IsRaise(x) == x.tag = "raise"
IsNaN(x) == x.tag = "nan"
IsInf(x) == x.tag = "inf"
IsSym(x) == x.tag = "sym"
IsComplex(x) == x.tag = "complex"
IsNp(x) == IF x.tag = "num" THEN x.np ELSE x.tag \in {"nan", "inf", "sym"}
IsZero(x) == x.tag = "num" /\ x.p = 0 /\ x.q = 0
\* a real, an infinity or a symbolic float64: a value with a sign
IsSigned(x) == x.tag \in {"num", "inf", "sym"}

\* the sign (1, 0, -1) of a real, an infinity or a symbolic float64
Sign(x) ==
    IF x.tag = "num" THEN (IF x.p > 0 \/ (x.p = 0 /\ x.q > 0) THEN 1
                           ELSE IF x.p = 0 THEN 0 ELSE -1)
    ELSE x.s

\* -x
Neg(x) ==
    CASE x.tag = "num" -> Real(-x.p, -x.q, x.d, x.np)
      [] x.tag \in {"inf", "sym"} -> [x EXCEPT !.s = -x.s]
      [] OTHER -> x

\* abs(x)
AbsV(x) ==
    CASE x.tag = "num" -> IF x.p < 0 THEN Real(-x.p, -x.q, x.d, x.np) ELSE x
      [] x.tag \in {"inf", "sym"} -> [x EXCEPT !.s = 1]
      [] OTHER -> x

\* x + y for reals: m1 and m2 bring both to the common denominator
AddNum(x, y, m1, m2) ==
    Real(x.p * m1 + y.p * m2, x.q * m1 + y.q * m2, x.d * m1, x.np \/ y.np)
AddGcd(x, y, g) == AddNum(x, y, y.d \div g, x.d \div g)

\* x + y (x - x is exactly zero)
Add(x, y) ==
    CASE IsRaise(x) -> x
      [] IsRaise(y) -> y
      [] IsComplex(x) \/ IsComplex(y) -> Complex
      [] IsNaN(x) \/ IsNaN(y) -> NaN
      [] IsSym(x) /\ IsSym(y) /\ x.e = y.e /\ x.s # y.s -> Zero64
      [] IsInf(x) -> IF IsInf(y) /\ x.s # y.s THEN NaN ELSE x
      [] IsInf(y) -> y
      [] IsNum(x) /\ IsNum(y) -> AddGcd(x, y, GCD(x.d, y.d))
      [] IsZero(x) -> y
      [] IsZero(y) -> x
      [] OTHER -> Sym(1, <<"add", x, y>>)

\* x - y
Sub(x, y) == Add(x, Neg(y))

\* the sign of P + Q * 1e-4 for integers P and Q
CmpFold(P1, Q1) == IF P1 > 0 \/ (P1 = 0 /\ Q1 > 0) THEN 1 ELSE IF P1 = 0 THEN 0 ELSE -1
CmpPQ(P, Q) == CmpFold(P + (Q \div KMinInv), Q % KMinInv)

\* the order of x and y: -1 (x < y), 0 (x == y), 1 (x > y), or 2 when they are
\* unordered, as NaN is with everything
Cmp(x, y) ==
    CASE IsNum(x) /\ IsNum(y) -> CmpPQ(x.p * y.d - y.p * x.d, x.q * y.d - y.q * x.d)
      [] IsInf(x) /\ IsNum(y) -> x.s
      [] IsNum(x) /\ IsInf(y) -> -y.s
      [] IsInf(x) /\ IsInf(y) -> IF x.s = y.s THEN 0 ELSE x.s
      [] OTHER -> 2

\* x < y, x <= y, x > y, x == y as Python evaluates them
Lt(x, y) == Cmp(x, y) = -1
Le(x, y) == Cmp(x, y) \in {-1, 0}
Gt(x, y) == Cmp(x, y) = 1
Eq(x, y) == Cmp(x, y) = 0

\* x * y
Mul(x, y) ==
    CASE IsRaise(x) -> x
      [] IsRaise(y) -> y
      [] IsComplex(x) \/ IsComplex(y) -> Complex
      [] IsNaN(x) \/ IsNaN(y) -> NaN
      [] ~IsSigned(x) \/ ~IsSigned(y) -> Sym(1, <<"mul", x, y>>)
      [] IsInf(x) \/ IsInf(y) ->
            IF IsZero(x) \/ IsZero(y) THEN NaN ELSE Inf(Sign(x) * Sign(y))
      [] IsNum(x) /\ IsNum(y) /\ (x.q = 0 \/ y.q = 0) ->
            Real(x.p * y.p, x.p * y.q + x.q * y.p, x.d * y.d, x.np \/ y.np)
      [] IsZero(x) \/ IsZero(y) -> Zero64
      [] OTHER -> Sym(Sign(x) * Sign(y), <<"mul", AbsV(x), AbsV(y)>>)

\* x / y: a zero divisor raises ZeroDivisionError between plain Python numbers;
\* when either operand is a numpy float64 the result is inf or nan (with a
\* RuntimeWarning) and nothing is raised
Div(x, y) ==
    CASE IsRaise(x) -> x
      [] IsRaise(y) -> y
      [] IsComplex(x) \/ IsComplex(y) -> Complex
      [] IsNaN(x) \/ IsNaN(y) -> NaN
      [] ~IsSigned(x) \/ ~IsSigned(y) -> Sym(1, <<"div", x, y>>)
      [] IsZero(y) ->
            IF ~IsNp(x) /\ ~IsNp(y) THEN Raise("ZeroDivisionError")
            ELSE IF IsZero(x) THEN NaN ELSE Inf(Sign(x))
      [] IsInf(x) -> IF IsInf(y) THEN NaN ELSE Inf(x.s * Sign(y))
      [] IsInf(y) -> Zero64
      [] IsNum(x) /\ IsNum(y) /\ y.q = 0 ->
            Real(x.p * y.d, x.q * y.d, x.d * y.p, x.np \/ y.np)
      [] IsZero(x) -> Zero64
      [] OTHER -> Sym(Sign(x) * Sign(y), <<"div", AbsV(x), AbsV(y)>>)

\* x ** 2
Sq(x) == Mul(x, x)

\* int(x): truncation toward zero; NaN and inf cannot be converted
IntV(x) ==
    CASE IsRaise(x) -> x
      [] IsNaN(x) -> Raise("ValueError")
      [] IsInf(x) -> Raise("OverflowError")
      [] IsNum(x) -> PyInt(IF x.p >= 0 THEN x.p \div x.d
                           ELSE -((-x.p - (IF x.q > 0 THEN 1 ELSE 0)) \div x.d))
      [] OTHER -> Raise("TypeError")

(***************************************************************************)
(* numpy primitives.  Their float64 results are modelled by rationals of   *)
(* low precision where the program needs a number (the estimator) and kept *)
(* symbolic inside the integrand.                                          *)
(***************************************************************************)

\* np.pi (a Python float), rounded to one significant digit so that the
\* estimator's pi^4 stays within the integers of the model checker
Pi == PyInt(3)

\* np.exp(x): always a float64; the [2/2] Pade approximant on rationals, and
\* 1 + x for the small x that have a 1e-4 part
ExpV(x) ==
    CASE IsRaise(x) -> x
      [] IsNaN(x) -> NaN
      [] IsInf(x) -> IF x.s > 0 THEN Inf(1) ELSE Zero64
      [] IsNum(x) /\ x.q = 0 ->
            Real(12 * x.d * x.d + 6 * x.p * x.d + x.p * x.p, 0,
                 12 * x.d * x.d - 6 * x.p * x.d + x.p * x.p, TRUE)
      [] IsNum(x) /\ x.p \in {-1, 0} -> Add(One64, x)
      [] OTHER -> Sym(1, <<"exp", x>>)

\* precision of the modelled square root: results are multiples of 1/SqrtScale
SqrtScale == 4

\* floor of the square root of a natural number, by bisection on lo..hi
RECURSIVE ISqrtIn(_, _, _)
ISqrtIn(v, lo, hi) ==
    IF lo >= hi THEN lo
    ELSE IF ((lo + hi + 1) \div 2) * ((lo + hi + 1) \div 2) <= v
         THEN ISqrtIn(v, (lo + hi + 1) \div 2, hi)
         ELSE ISqrtIn(v, lo, ((lo + hi + 1) \div 2) - 1)
ISqrt(v) == ISqrtIn(v, 0, IF v < 46340 THEN v ELSE 46340)

\* x ** 0.5: a negative Python float gives a complex number, a negative
\* float64 gives nan; otherwise the root rounded down to 1/SqrtScale
SqrtV(x) ==
    CASE IsRaise(x) -> x
      [] IsNaN(x) -> NaN
      [] IsInf(x) -> IF x.s > 0 THEN x ELSE NaN
      [] IsNum(x) ->
            IF x.p < 0 THEN (IF x.np THEN NaN ELSE Complex)
            ELSE Real(ISqrt((x.p \div x.d) * SqrtScale * SqrtScale
                            + ((x.p % x.d) * SqrtScale * SqrtScale
                               + (x.q * SqrtScale * SqrtScale) \div KMinInv) \div x.d),
                      0, SqrtScale, x.np)
      [] OTHER -> Sym(1, <<"sqrt", x>>)

\* np.exp(x) inside the integrand, kept symbolic: exp(0) = 1 exactly
ExpS(x) ==
    CASE IsRaise(x) -> x
      [] IsComplex(x) -> Complex
      [] IsNaN(x) -> NaN
      [] IsInf(x) -> IF x.s > 0 THEN Inf(1) ELSE Zero64
      [] IsZero(x) -> One64
      [] OTHER -> Sym(1, <<"exp", x>>)

\* x ** 0.5 inside the integrand, kept symbolic: a negative Python float gives
\* a complex number, a negative float64 gives nan, and 0 ** 0.5 = 0
SqrtS(x) ==
    CASE IsRaise(x) -> x
      [] IsComplex(x) -> Complex
      [] IsNaN(x) -> NaN
      [] IsInf(x) -> IF x.s > 0 THEN x ELSE NaN
      [] IsZero(x) -> x
      [] IsNum(x) /\ Sign(x) < 0 -> IF x.np THEN NaN ELSE Complex
      [] OTHER -> Sym(1, <<"sqrt", x>>)

\* 2|x|/pi: the number of quarter turns of the angle |x|
QuarterTurns(x) == Div(Mul(PyInt(2), AbsV(x)), Pi)

\* sin of an odd number n of quarter turns: 1.0 or -1.0 exactly
SinTurns(n) == IF n % 4 = 1 THEN One64 ELSE Neg(One64)
SinQuarter(x, n) ==
    IF n.q = 0 /\ n.d = 1 /\ n.p % 2 = 1
    THEN (IF Sign(x) < 0 THEN Neg(SinTurns(n.p)) ELSE SinTurns(n.p))
    ELSE Sym(Sign(x), <<"sin", AbsV(x)>>)

\* np.sin(x): a float64; sin(0) = 0 exactly, sin(-x) = -sin(x), and the sine
\* of an odd multiple of np.pi/2 is 1.0 or -1.0 exactly
SinV(x) ==
    CASE IsRaise(x) -> x
      [] IsComplex(x) -> Complex
      [] IsZero(x) -> Zero64
      [] IsNum(x) -> SinQuarter(x, QuarterTurns(x))
      [] IsSym(x) -> Sym(x.s, <<"sin", AbsV(x)>>)
      [] OTHER -> NaN

\* a faulty variant of np.sinc: the unnormalised sin(y)/y
SincV_unnormalised(y) == IF IsZero(y) THEN One64 ELSE Div(SinV(y), y)

\* np.sinc(y) = sin(pi y)/(pi y), with the value 1 at y = 0
SincV(y) == IF IsZero(y) THEN One64 ELSE Div(SinV(Mul(Pi, y)), Mul(Pi, y))

(***************************************************************************)
(* The integrand f(k,r,t,w_0,c) and its module-level constants             *)
(***************************************************************************)

\* c = 1 and w_0 = 1, the notebook's module-level constants (defaults of f)
c_global == 1
w_0_global == 1

\* a faulty variant of the last factor: it divides by |r*k|, which makes the
\* result odd in r
Spatial_abs_divisor(head, rk) == Div(Mul(head, SinV(rk)), AbsV(rk))

\* the last factor of both formulas, applied to what precedes it:
\* head * np.sin(r*k)/(r*k)
Spatial(head, rk) == Div(Mul(head, SinV(rk)), rk)

\* 8 * np.pi**2 * c**2
Amp(c) == Mul(Mul(PyInt(8), Sq(Pi)), Sq(c))

\* k**2 * c**2 / (4 * w_0**2)
Ratio(k, w_0, c) == Div(Mul(Sq(k), Sq(c)), Mul(PyInt(4), Sq(w_0)))

\* c**2 * k**2 * t / (2 * w_0), with c2 for its first factor (c**2 or -c**2)
Decay(c2, k, t, w_0) == Div(Mul(Mul(c2, Sq(k)), t), Mul(PyInt(2), w_0))

\* np.exp(kcts - q) - np.exp(-kcts - q)
Hyper(kcts, q) == Sub(ExpS(Sub(kcts, q)), ExpS(Sub(Neg(kcts), q)))

\* the sub-critical formula, first its factors before np.sin(r*k)/(r*k):
\*   8 * np.pi**2 * c**2 * k**2 * np.exp(-c**2 * k**2 * t / (2 * w_0)) *
\*   np.sinc(k*c*t/np.pi * (1 - k**2 * c**2 / (4 * w_0**2))**0.5) *
\*   np.sin(r*k)/(r*k)
f_sub_head(k, t, w_0, c) ==
    Mul(Mul(Mul(Amp(c), Sq(k)), ExpS(Decay(Neg(Sq(c)), k, t, w_0))),
        SincV(Mul(Div(Mul(Mul(k, c), t), Pi), SqrtS(Sub(PyInt(1), Ratio(k, w_0, c))))))
f_sub(k, r, t, w_0, c) == Spatial(f_sub_head(k, t, w_0, c), Mul(r, k))

\* the factors of the super-critical formula before np.sin(r*k)/(r*k):
\*   8 * np.pi**2 * c**2 * k**2 * (np.exp(k*c*t*s - q) - np.exp(-k*c*t*s - q))
\*   / (2*k*c*t*s),
\* given s = (-1 + k**2 * c**2 / (4 * w_0**2))**0.5
f_super_head(k, t, w_0, c, s) ==
    Div(Mul(Mul(Amp(c), Sq(k)),
            Hyper(Mul(Mul(Mul(k, c), t), s), Decay(Sq(c), k, t, w_0))),
        Mul(Mul(Mul(Mul(PyInt(2), k), c), t), s))

\* the super-critical formula
f_super(k, r, t, w_0, c) ==
    Spatial(f_super_head(k, t, w_0, c, SqrtS(Add(PyInt(-1), Ratio(k, w_0, c)))),
            Mul(r, k))

\* f past its first two guards, given 2*w_0/c
f_branch(k, r, t, w_0, c, k_crit) ==
    IF IsRaise(k_crit) THEN [branch |-> "raise", val |-> k_crit, rk |-> None]
    ELSE IF Lt(k, k_crit)
         THEN [branch |-> "sub", val |-> f_sub(k, r, t, w_0, c), rk |-> Mul(r, k)]
    ELSE IF Gt(k, k_crit)
         THEN [branch |-> "super", val |-> f_super(k, r, t, w_0, c), rk |-> Mul(r, k)]
    ELSE [branch |-> "k=k_crit", val |-> PyInt(0), rk |-> None]

\* faulty variants of f: without the guard t < 0; with the guard k < 0 in
\* place of k <= 0; comparing k with 2*w_0/c of the module-level w_0 and c
\* (as e does) instead of the arguments
f_trace_no_causality(k, r, t, w_0, c) ==
    IF Le(k, PyInt(0)) THEN [branch |-> "k<=0", val |-> PyInt(0), rk |-> None]
    ELSE f_branch(k, r, t, w_0, c, Div(Mul(PyInt(2), w_0), c))
f_trace_strict_k_guard(k, r, t, w_0, c) ==
    IF Lt(t, PyInt(0)) THEN [branch |-> "t<0", val |-> PyInt(0), rk |-> None]
    ELSE IF Lt(k, PyInt(0)) THEN [branch |-> "k<=0", val |-> PyInt(0), rk |-> None]
    ELSE f_branch(k, r, t, w_0, c, Div(Mul(PyInt(2), w_0), c))
f_trace_global_k_crit(k, r, t, w_0, c) ==
    IF Lt(t, PyInt(0)) THEN [branch |-> "t<0", val |-> PyInt(0), rk |-> None]
    ELSE IF Le(k, PyInt(0)) THEN [branch |-> "k<=0", val |-> PyInt(0), rk |-> None]
    ELSE f_branch(k, r, t, w_0, c, Div(Mul(PyInt(2), PyInt(w_0_global)), PyInt(c_global)))

\* f, with the branch it took and the product r*k it computed
f_trace(k, r, t, w_0, c) ==
    IF Lt(t, PyInt(0)) THEN [branch |-> "t<0", val |-> PyInt(0), rk |-> None]
    ELSE IF Le(k, PyInt(0)) THEN [branch |-> "k<=0", val |-> PyInt(0), rk |-> None]
    ELSE f_branch(k, r, t, w_0, c, Div(Mul(PyInt(2), w_0), c))

f(k, r, t, w_0, c) == f_trace(k, r, t, w_0, c).val

(***************************************************************************)
(* The envelope e(k,r,t): it has no parameters w_0 and c and reads the     *)
(* module-level constants                                                  *)
(***************************************************************************)

\* the sub-critical envelope, given the constants read:
\*   8 * np.pi**2 * c**2 * np.exp(-c**2 * k**2 * t / (2 * w_0)) /
\*   (r*c*t * (1 - k**2 * c**2 / (4 * w_0**2))**0.5)
e_sub(k, r, t, w_0, c) ==
    Div(Mul(Amp(c), ExpS(Decay(Neg(Sq(c)), k, t, w_0))),
        Mul(Mul(Mul(r, c), t), SqrtS(Sub(PyInt(1), Ratio(k, w_0, c)))))

\* the super-critical envelope, given s = (-1 + k**2 * c**2 / (4 * w_0**2))**0.5:
\*   8 * np.pi**2 * c**2 * (np.exp(k*c*t*s - q) - np.exp(-k*c*t*s - q)) /
\*   (2*c*t*s) / r
e_super_s(k, r, t, w_0, c, s) ==
    Div(Div(Mul(Amp(c), Hyper(Mul(Mul(Mul(k, c), t), s), Decay(Sq(c), k, t, w_0))),
            Mul(Mul(Mul(PyInt(2), c), t), s)),
        r)
e_super(k, r, t, w_0, c) ==
    e_super_s(k, r, t, w_0, c, SqrtS(Add(PyInt(-1), Ratio(k, w_0, c))))

\* e past its first two guards, given 2*w_0/c of the constants read
e_branch(k, r, t, w_0, c, k_crit) ==
    IF Lt(k, k_crit) THEN [branch |-> "sub", val |-> e_sub(k, r, t, w_0, c)]
    ELSE IF Gt(k, k_crit) THEN [branch |-> "super", val |-> e_super(k, r, t, w_0, c)]
    ELSE [branch |-> "k=k_crit", val |-> PyInt(0)]

\* e, with the branch it took
e_trace(k, r, t) ==
    IF Lt(t, PyInt(0)) THEN [branch |-> "t<0", val |-> PyInt(0)]
    ELSE IF Le(k, PyInt(0)) THEN [branch |-> "k<=0", val |-> PyInt(0)]
    ELSE e_branch(k, r, t, PyInt(w_0_global), PyInt(c_global),
                  Div(Mul(PyInt(2), PyInt(w_0_global)), PyInt(c_global)))

e(k, r, t) == e_trace(k, r, t).val

(***************************************************************************)
(* Simpson integration.  An integrand is a record: the kernel f with its   *)
(* extra arguments supplied through params, or a polynomial                *)
(* coef[1] + coef[2] x + coef[3] x^2 called without params.                *)
(***************************************************************************)

Poly(coef) == [kind |-> "poly", coef |-> coef]
Kernel == [kind |-> "f"]

\* g(x) when params == (), g(x, *params) otherwise
Apply(g, x, params) ==
    IF g.kind = "f" THEN f(x, params[1], params[2], params[3], params[4])
    ELSE Add(Add(PyInt(g.coef[1]), Mul(PyInt(g.coef[2]), x)), Mul(PyInt(g.coef[3]), Sq(x)))

\* a faulty variant of the evaluations of simps_point: the left end point is
\* taken over from the previous subinterval
simps_point_pts_shared(a, b) == <<Div(Add(a, b), PyInt(2)), b>>

\* the points at which simps_point(g, a, b, ...) evaluates g, in order
simps_point_pts(a, b) == <<a, Div(Add(a, b), PyInt(2)), b>>

simps_point(g, a, b, Dx, params) ==
    Mul(Div(IF Lt(Dx, PyInt(0)) THEN AbsV(Sub(a, b)) ELSE Dx, PyInt(6)),
        Add(Add(Apply(g, a, params),
                Mul(PyInt(4), Apply(g, Div(Add(a, b), PyInt(2)), params))),
            Apply(g, b, params)))

\* one pass of the loop body of simps for the index i
simps_body(g, a, Dx, i, params) == simps_point(g, a, Add(a, Mul(PyInt(i), Dx)), Dx, params)

\* entry of simps(f, a, b, Npts, progress, params) up to its loop: the step
\* Dx = abs(a-b)/Npts, then the loop bound int(Npts) of range(0, int(Npts)).
\* exc is the exception raised on the way ("none" if the loop is entered).
simps_frame(g, a, b, N, progress, params, Dx, n) ==
    [g |-> g, a |-> a, b |-> b, N |-> N, progress |-> progress, params |-> params,
     Dx |-> Dx, n |-> IF IsRaise(n) THEN 0 ELSE n.p,
     exc |-> IF IsRaise(n) THEN n.exc ELSE "none"]
simps_range(g, a, b, N, progress, params, Dx) ==
    simps_frame(g, a, b, N, progress, params, Dx, IF IsRaise(Dx) THEN Dx ELSE IntV(N))
simps_enter(g, a, b, N, progress, params) ==
    simps_range(g, a, b, N, progress, params, Div(AbsV(Sub(a, b)), N))

\* a call that raised while its arguments were evaluated
NoFrame(exc) == [exc |-> exc]

\* range(lo, hi), as the sequence of its items
range(lo, hi) == [m \in 1..(hi - lo) |-> lo + m - 1]

\* a faulty variant of tqdm: the first item is consumed by the bar
tqdm_dropping(it) == IF it = <<>> THEN it ELSE Tail(it)

\* tqdm(iterable): yields the items of the iterable, in order (and draws a
\* progress bar)
tqdm(it) == it

\* the items the loop of simps runs over:
\* tqdm(range(0,int(Npts))) if progress, range(0,int(Npts)) otherwise
simps_items(fr) == IF fr.progress THEN tqdm(range(0, fr.n)) ELSE range(0, fr.n)

\* simps from its loop on, as a function of the frame: the passes over items
\* added up in order, and what simps returns (or raises)
RECURSIVE simps_sum(_, _)
simps_sum(fr, items) ==
    IF items = <<>> THEN PyInt(0)
    ELSE Add(simps_sum(fr, SubSeq(items, 1, Len(items) - 1)),
             simps_body(fr.g, fr.a, fr.Dx, items[Len(items)], fr.params))
simps_value(fr) == IF fr.exc # "none" THEN Raise(fr.exc) ELSE simps_sum(fr, simps_items(fr))

(***************************************************************************)
(* The estimator and the point integral                                    *)
(***************************************************************************)

\* the subinterval count without the damping factor exp(-2 w_0 t):
\* w_0 r Np/(c pi) (16 pi^4 c^2/(delta^2 r^2 t^2) + 1)^0.5
Npts_undamped(r, t, delta, Np, w_0, c) ==
    Mul(Div(Mul(Mul(w_0, r), Np), Mul(c, Pi)),
        SqrtV(Add(Div(Mul(Mul(PyInt(16), Sq(Sq(Pi))), Sq(c)),
                      Mul(Mul(Sq(delta), Sq(r)), Sq(t))),
                  PyInt(1))))

\* w_0 r Np/(c pi) (16 pi^4 c^2/(delta^2 r^2 t^2) exp(-2 w_0 t) + 1)^0.5
Npts(r, t, delta, Np, w_0, c) ==
    Mul(Div(Mul(Mul(w_0, r), Np), Mul(c, Pi)),
        SqrtV(Add(Mul(Div(Mul(Mul(PyInt(16), Sq(Sq(Pi))), Sq(c)),
                          Mul(Mul(Sq(delta), Sq(r)), Sq(t))),
                      ExpV(Mul(Mul(PyInt(-2), w_0), t))),
                  PyInt(1))))

\* a faulty variant of k_0: delta^2 multiplies where it should divide
k_0_rising(r, t, delta, w_0, c) ==
    Mul(Div(Mul(PyInt(2), w_0), c),
        SqrtV(Add(Mul(Div(Mul(Mul(Mul(PyInt(16), Sq(Sq(Pi))), Sq(c)), Sq(delta)),
                          Mul(Sq(r), Sq(t))),
                      ExpV(Mul(Mul(PyInt(-2), w_0), t))),
                  PyInt(1))))

\* 2 w_0/c (16 pi^4 c^2/(delta^2 r^2 t^2) exp(-2 w_0 t) + 1)^0.5
k_0(r, t, delta, w_0, c) ==
    Mul(Div(Mul(PyInt(2), w_0), c),
        SqrtV(Add(Mul(Div(Mul(Mul(PyInt(16), Sq(Sq(Pi))), Sq(c)),
                          Mul(Mul(Sq(delta), Sq(r)), Sq(t))),
                      ExpV(Mul(Mul(PyInt(-2), w_0), t))),
                  PyInt(1))))

\* a faulty variant of the lower bound: the integral taken from 0
k_min_zero == PyInt(0)

\* the lower integration bound 1e-4 of F
k_min == [tag |-> "num", p |-> 0, q |-> 1, d |-> 1, np |-> FALSE]

\* F(r,t,delta,Np,w_0,c,progress) up to the loop of simps: the arguments of
\* simps are evaluated in order, k_0 before Npts, and the first exception
\* raised ends the call
F_args(r, t, w_0, c, progress, b, N) ==
    IF IsRaise(b) THEN NoFrame(b.exc)
    ELSE IF IsRaise(N) THEN NoFrame(N.exc)
    ELSE simps_enter(Kernel, k_min, b, N, progress, <<r, t, w_0, c>>)
F_enter(r, t, delta, Np, w_0, c, progress) ==
    F_args(r, t, w_0, c, progress, k_0(r, t, delta, w_0, c), Npts(r, t, delta, Np, w_0, c))

\* F as a function: what it returns (or raises)
F_value(r, t, delta, Np, w_0, c, progress) ==
    simps_value(F_enter(r, t, delta, Np, w_0, c, progress))

(***************************************************************************)
(* The grid samplers                                                       *)
(***************************************************************************)

AsNp(x) == [x EXCEPT !.np = TRUE]

\* a faulty variant of np.linspace: the end point hi is left out
linspace_exclusive(lo, hi, N) ==
    [m \in 1..(N - 1) |-> AsNp(Add(lo, Div(Mul(PyInt(m - 1), Sub(hi, lo)), PyInt(N))))]

\* np.linspace(lo, hi, N): N evenly spaced float64 from lo to hi inclusive
linspace(lo, hi, N) ==
    [m \in 1..N |->
        IF N = 1 THEN AsNp(lo)
        ELSE AsNp(Add(lo, Div(Mul(PyInt(m - 1), Sub(hi, lo)), PyInt(N - 1))))]

\* the times the outer loop of F_range runs over: tqdm(T) if progress, else T
F_range_items(progress, T0) == IF progress THEN tqdm(T0) ELSE T0

\* the radii the loop of F_slice runs over: tqdm(R) if progress, else R
F_slice_items(progress, R0) == IF progress THEN tqdm(R0) ELSE R0

\* the first exception raised among the values vs (evaluated in order), or None
RECURSIVE FirstRaise(_)
FirstRaise(vs) ==
    IF vs = <<>> THEN None
    ELSE IF IsRaise(Head(vs)) THEN Head(vs) ELSE FirstRaise(Tail(vs))

\* the values F_range computes, in order, for the summary it prints first
F_range_summary(r_min, r_max, Nr, t_min, t_max, Nt, delta, Np, w_0, c) ==
    FirstRaise(<<Div(Sub(t_max, t_min), PyInt(Nt)),
                 Div(Sub(r_max, r_min), PyInt(Nr)),
                 Div(Mul(PyInt(2), w_0), c),
                 k_0(r_min, t_min, delta, w_0, c),
                 k_0(r_max, t_min, delta, w_0, c),
                 IntV(Npts(r_min, t_max, delta, Np, w_0, c)),
                 IntV(Npts(r_max, t_min, delta, Np, w_0, c))>>)

\* the values F_slice computes for its summary; Nt is read from the session
F_slice_summary(r_min, r_max, Nr, t, delta, Np, w_0, c) ==
    FirstRaise(<<Div(Sub(r_max, r_min), PyInt(Nr)),
                 Div(Mul(PyInt(2), w_0), c),
                 k_0(r_min, t, delta, w_0, c),
                 k_0(r_max, t, delta, w_0, c),
                 IntV(Npts(r_min, t, delta, Np, w_0, c)),
                 IntV(Npts(r_max, t, delta, Np, w_0, c))>>)

(***************************************************************************)
(* The closed-form point source: the pressure p(r, t, ...) and the signal   *)
(* to noise ratio signal_noise(r, ...), with their physical constants as    *)
(* keyword parameters.                                                      *)
(***************************************************************************)

\* x ** y for a positive x and a fractional power y, kept symbolic
PowS(x, y) == Sym(1, <<"pow", x, y>>)

\* scipy.constants.k, the Boltzmann constant: a positive float
const_k == Sym(1, <<"const.k">>)

\* the returned expression of p
p_value(r, t, E_0, beta, C_p, c, w_0, sigma) ==
    Mul(Div(Mul(Mul(Neg(beta), E_0), Sub(Mul(c, t), r)),
            Mul(Mul(Mul(Mul(PyInt(4), Pi), C_p), SqrtS(Mul(Mul(PyInt(2), Pi), Sq(c)))),
                Add(Sq(sigma), Div(r, Mul(w_0, c))))),
        ExpS(Div(Neg(Sq(Sub(Mul(c, t), r))),
                 Add(Mul(Mul(PyInt(2), Sq(c)), Sq(sigma)), Div(Mul(r, c), w_0)))))

\* p from its test r == 0 on
p_guarded(r, t, E_0, beta, C_p, c, w_0, sigma) ==
    IF IsZero(r) THEN PyInt(0) ELSE p_value(r, t, E_0, beta, C_p, c, w_0, sigma)

\* a faulty variant of p: the sign of r is not folded
p_unfolded(r, t, E_0, beta, C_p, c, w_0, sigma) ==
    p_guarded(r, t, E_0, beta, C_p, c, w_0, sigma)

\* p(r, t, E_0, beta, C_p, c, w_0, sigma): if r < 0: r = -r, then the test
p(r, t, E_0, beta, C_p, c, w_0, sigma) ==
    p_guarded(IF Lt(r, PyInt(0)) THEN Neg(r) ELSE r, t, E_0, beta, C_p, c, w_0, sigma)

\* the returned expression of signal_noise
signal_noise_value(r, beta, c, E_0, C_p, rho, Temp, sigma, w_0) ==
    Div(Mul(Mul(Sq(beta), c), Sq(E_0)),
        Mul(Mul(Mul(Mul(Mul(Mul(Mul(PyInt(16), PowS(Pi, Py(3, 2))), Sq(C_p)), rho),
                        const_k), Temp), Sq(r)),
            SqrtS(Add(Sq(sigma), Div(r, Mul(w_0, c))))))

\* signal_noise(r, beta, c, E_0, C_p, rho, T, sigma, w_0): the test r == 0,
\* then if r < 0: r = -r
signal_noise(r, beta, c, E_0, C_p, rho, Temp, sigma, w_0) ==
    IF IsZero(r) THEN PyInt(0)
    ELSE signal_noise_value(IF Lt(r, PyInt(0)) THEN Neg(r) ELSE r,
                            beta, c, E_0, C_p, rho, Temp, sigma, w_0)

(***************************************************************************)
(* mesh_wrapper(X, T, f, params) of the convolution notebook.  The function *)
(* f it tabulates is a record of integer coefficients:                     *)
(* f(x, t) = cx x + ct t, and f(x, t, p) = cx x + ct t + p with params.    *)
(***************************************************************************)

\* np.zeros((n, m)): n rows of m zeros
zeros(n, m) == [a \in 1..n |-> [b \in 1..m |-> 0]]

\* f(X[i],T[j]) when params == (), f(X[i],T[j],*params) otherwise
mesh_f(g, x, t, params) ==
    IF params = <<>> THEN g.cx * x + g.ct * t ELSE g.cx * x + g.ct * t + params[1]

\* the index j (from 0) is within an axis of the given size
InRange(j, size) == j < size

\* z[j][i] = v for indices from 0: the array after the assignment, or the
\* IndexError raised when j is not a row of z or i not a column of it
setitem(arr, j, i, v) ==
    IF InRange(j, Len(arr)) /\ InRange(i, Len(arr[j + 1]))
    THEN [exc |-> "none", arr |-> [arr EXCEPT ![j + 1][i + 1] = v]]
    ELSE [exc |-> "IndexError"]

(***************************************************************************)
(* The notebook session: one call of f, e, simps, k_0, Npts, F, F_range,    *)
(* F_slice, p, signal_noise or mesh_wrapper with arguments drawn from      *)
(* bounded sets.                                                           *)
(* F_range and F_slice run their loop one grid point per step,             *)
(* mesh_wrapper one assignment per step.                                   *)
(***************************************************************************)

VARIABLES
    fn,       \* the function the session called
    args,     \* its arguments
    pc,       \* "start" (not yet called), "sweep" (between two grid points of
              \* F_range or F_slice), "simps" (in the loop of simps), "done"
    res,      \* when done: exc, the exception raised ("none" if the call
              \* returned), and out, what it returned
    R, T,     \* the radius and time sequences of the running sweep
    grid,     \* the list the running sweep has built so far
    ti, ri,   \* indices (from 1) of the next grid point of the running sweep
    session,  \* the notebook globals t_min, t_max, Nt (set by the mesh cell)
    frame,    \* the running call of simps: its arguments, Dx and int(Npts)
    integral, \* its accumulator
    i,        \* its loop index
    pts,      \* the points at which it has evaluated the integrand, in order
    z,        \* the array of the running call of mesh_wrapper
    mesh_i,   \* the loop indices i and j of mesh_wrapper (from 0): the next
    mesh_j    \* assignment is z[j][i] = ...

vars == <<fn, args, pc, res, R, T, grid, ti, ri, session, frame, integral, i, pts,
          z, mesh_i, mesh_j>>

\* bounds of the inputs
MaxK == 3
MaxR == 3
MaxT == 1
MaxW == 2
MaxCoef == 1
MaxA == 2
MaxN == 3
MaxNp == 2
MaxGrid == 3
DeltaSteps == 4
MaxMesh == 2
MaxMeshVal == 2

Ints(lo, hi) == {PyInt(m) : m \in lo..hi}
Halves(lo, hi) == {Py(m, 2) : m \in (2 * lo)..(2 * hi)}
\* a plain Python number or the same value as a numpy float64
Kinds(S) == S \cup {AsNp(x) : x \in S}

f_Args ==
    {[k |-> k, r |-> r, t |-> t, w_0 |-> w_0, c |-> c] :
        k \in Kinds(Halves(-1, MaxK)), r \in Ints(-MaxR, MaxR), t \in Ints(-MaxT, MaxT),
        w_0 \in Ints(-1, MaxW), c \in Ints(-1, MaxW)}

e_Args ==
    {[k |-> k, r |-> r, t |-> t] :
        k \in Kinds(Halves(-1, MaxK)), r \in Ints(-MaxR, MaxR), t \in Ints(-MaxT, MaxT)}

simps_Args ==
    {[g |-> Poly(coef), a |-> a, b |-> b, N |-> N, progress |-> progress] :
        coef \in [1..3 -> 0..MaxCoef], a \in Ints(-1, MaxA), b \in Ints(-1, MaxA),
        N \in Halves(-1, MaxN), progress \in BOOLEAN}

\* the tolerances m/DeltaSteps up to 1
Deltas == {Py(m, DeltaSteps) : m \in 0..DeltaSteps}

k_0_Args ==
    {[r |-> r, t |-> t, delta |-> delta, w_0 |-> w_0, c |-> c] :
        r \in Ints(0, MaxR), t \in Ints(0, MaxT), delta \in Deltas,
        w_0 \in Ints(0, MaxW), c \in Ints(0, MaxW)}

Npts_Args ==
    {[r |-> r, t |-> t, delta |-> delta, Np |-> Np, w_0 |-> w_0, c |-> c] :
        r \in Kinds(Ints(0, MaxR)), t \in Ints(0, MaxT), delta \in Deltas,
        Np \in Ints(0, MaxNp), w_0 \in Ints(0, MaxW), c \in Ints(0, MaxW)}

\* F far from the source, with a slow damping (w_0 = 0.25e-4) and a dense
\* sampling: k_0 is 0.75e-4 and Npts is 1
F_slow ==
    [r |-> PyInt(32), t |-> PyInt(1), delta |-> PyInt(1), Np |-> PyInt(2500),
     w_0 |-> Real(0, 1, 4, FALSE), c |-> PyInt(1), progress |-> FALSE]

\* F with the constants w_0 = c = 1 over points, tolerances and densities, and
\* at one point with constants of either sign
F_Args ==
    {[r |-> IF np THEN AsNp(r) ELSE r, t |-> IF np THEN AsNp(t) ELSE t, delta |-> delta,
      Np |-> Np, w_0 |-> PyInt(1), c |-> PyInt(1), progress |-> progress] :
        r \in Ints(0, MaxR), t \in Ints(0, MaxT), np \in BOOLEAN,
        delta \in {Py(-1, 2), Py(1, 2), PyInt(1)}, Np \in Ints(-1, MaxNp),
        progress \in BOOLEAN}
    \cup
    {[r |-> PyInt(1), t |-> PyInt(1), delta |-> delta, Np |-> Np, w_0 |-> w_0, c |-> c,
      progress |-> FALSE] :
        delta \in {Py(-1, 2), PyInt(1)}, Np \in Ints(-1, 1),
        w_0 \in Ints(-1, 1), c \in Ints(-1, 1)}
    \cup
    {F_slow}

F_range_Args ==
    {[r_min |-> r_min, r_max |-> r_max, Nr |-> Nr, t_min |-> t_min, t_max |-> t_max,
      Nt |-> Nt, delta |-> PyInt(1), Np |-> PyInt(1), w_0 |-> PyInt(1), c |-> PyInt(1),
      progress |-> progress] :
        r_min \in Ints(-1, 1), r_max \in Ints(-1, 1), Nr \in 0..MaxGrid,
        t_min \in Ints(-1, 1), t_max \in Ints(-1, 1), Nt \in 0..MaxGrid,
        progress \in BOOLEAN}

F_slice_Args ==
    {[r_min |-> r_min, r_max |-> r_max, Nr |-> Nr, t |-> t,
      delta |-> PyInt(1), Np |-> PyInt(1), w_0 |-> PyInt(1), c |-> PyInt(1),
      progress |-> progress] :
        r_min \in Ints(-1, 1), r_max \in Ints(-1, 1), Nr \in 0..MaxGrid,
        t \in Ints(-1, 1), progress \in BOOLEAN}

p_Args ==
    {[r |-> r, t |-> t, E_0 |-> PyInt(1), beta |-> PyInt(1), C_p |-> PyInt(1),
      c |-> c, w_0 |-> w_0, sigma |-> sigma] :
        r \in Kinds(Ints(-MaxR, MaxR)), t \in Ints(-MaxT, MaxT),
        c \in Ints(1, MaxW), w_0 \in Ints(0, MaxW), sigma \in Ints(0, 1)}

signal_noise_Args ==
    {[r |-> r, beta |-> PyInt(1), c |-> c, E_0 |-> PyInt(1), C_p |-> PyInt(1),
      rho |-> PyInt(1), T |-> PyInt(1), sigma |-> sigma, w_0 |-> w_0] :
        r \in Kinds(Ints(-MaxR, MaxR)),
        c \in Ints(1, MaxW), w_0 \in Ints(0, MaxW), sigma \in Ints(0, 1)}

\* sequences over S of length up to n
SeqsUpTo(S, n) == UNION {[1..m -> S] : m \in 0..n}

mesh_wrapper_Args ==
    {[X |-> X, T |-> T0, f |-> [cx |-> 1, ct |-> MaxMeshVal + 1], params |-> params] :
        X \in SeqsUpTo(1..MaxMeshVal, MaxMesh), T0 \in SeqsUpTo(1..MaxMeshVal, MaxMesh),
        params \in {<<>>, <<1>>}}

Undefined == [defined |-> FALSE]
Sessions ==
    {Undefined} \cup
    {[defined |-> TRUE, t_min |-> PyInt(1), t_max |-> PyInt(2), Nt |-> Nt] : Nt \in 1..2}

Init ==
    /\ pc = "start" /\ res = None
    /\ R = <<>> /\ T = <<>> /\ grid = <<>> /\ ti = 0 /\ ri = 0
    /\ frame = None /\ integral = None /\ i = 0 /\ pts = <<>>
    /\ z = <<>> /\ mesh_i = 0 /\ mesh_j = 0
    /\ \/ fn = "f" /\ args \in f_Args /\ session = Undefined
       \/ fn = "e" /\ args \in e_Args /\ session = Undefined
       \/ fn = "simps" /\ args \in simps_Args /\ session = Undefined
       \/ fn = "k_0" /\ args \in k_0_Args /\ session = Undefined
       \/ fn = "Npts" /\ args \in Npts_Args /\ session = Undefined
       \/ fn = "F" /\ args \in F_Args /\ session = Undefined
       \/ fn = "F_range" /\ args \in F_range_Args /\ session = Undefined
       \/ fn = "F_slice" /\ args \in F_slice_Args /\ session \in Sessions
       \/ fn = "p" /\ args \in p_Args /\ session = Undefined
       \/ fn = "signal_noise" /\ args \in signal_noise_Args /\ session = Undefined
       \/ fn = "mesh_wrapper" /\ args \in mesh_wrapper_Args /\ session = Undefined

NoSweep == UNCHANGED <<R, T, grid, ti, ri>>
NoLoop == UNCHANGED <<frame, integral, i, pts>>

\* the call raised exc
Raised(exc) == res' = [exc |-> exc, out |-> None] /\ pc' = "done"

\* f, e, k_0, Npts, p or signal_noise returned out.val (or raised it)
Returned(out) ==
    /\ res' = [exc |-> IF IsRaise(out.val) THEN out.val.exc ELSE "none", out |-> out]
    /\ pc' = "done"

\* a faulty variant of the entry of simps: the accumulator is a global that
\* keeps the value the previous integral left in it
Enter_carrying(fr) ==
    IF fr.exc # "none" THEN Raised(fr.exc) /\ NoLoop
    ELSE /\ frame' = fr /\ i' = 0 /\ pts' = <<>>
         /\ integral' = (IF integral = None THEN PyInt(0) ELSE integral)
         /\ pc' = "simps" /\ UNCHANGED res

\* simps ran up to its loop: it raised there, or the loop is entered with the
\* frame fr
Enter(fr) ==
    IF fr.exc # "none" THEN Raised(fr.exc) /\ NoLoop
    ELSE /\ frame' = fr /\ integral' = PyInt(0) /\ i' = 0 /\ pts' = <<>>
         /\ pc' = "simps" /\ UNCHANGED res

\* one pass of the loop of simps, for the item it, made the integral v
Pass(v, it) ==
    IF IsRaise(v)
    THEN Raised(v.exc) /\ UNCHANGED <<integral, i, pts>>
    ELSE /\ integral' = v /\ i' = i + 1
         /\ pts' = pts \o simps_point_pts(frame.a, Add(frame.a, Mul(PyInt(it), frame.Dx)))
         /\ UNCHANGED <<res, pc>>

\* a sampler printed its summary s (or raised there), then built R and T
Sweep(s, R0, T0) ==
    IF IsRaise(s)
    THEN Raised(s.exc) /\ NoSweep
    ELSE /\ R' = R0 /\ T' = T0
         /\ grid' = <<>> /\ ti' = 1 /\ ri' = 1
         /\ pc' = "sweep" /\ UNCHANGED res

\* the call f(k, r, t, w_0, c)
Call_f ==
    /\ pc = "start" /\ fn = "f"
    /\ Returned(f_trace(args.k, args.r, args.t, args.w_0, args.c))
    /\ NoSweep /\ NoLoop /\ UNCHANGED <<fn, args, session, z, mesh_i, mesh_j>>

\* the call e(k, r, t)
Call_e ==
    /\ pc = "start" /\ fn = "e"
    /\ Returned(e_trace(args.k, args.r, args.t))
    /\ NoSweep /\ NoLoop /\ UNCHANGED <<fn, args, session, z, mesh_i, mesh_j>>

\* the call simps(g, a, b, N, progress) of a polynomial integrand, up to the loop
Call_simps ==
    /\ pc = "start" /\ fn = "simps"
    /\ Enter(simps_enter(args.g, args.a, args.b, args.N, args.progress, <<>>))
    /\ NoSweep /\ UNCHANGED <<fn, args, session, z, mesh_i, mesh_j>>

\* the call k_0(r, t, delta, w_0, c)
Call_k_0 ==
    /\ pc = "start" /\ fn = "k_0"
    /\ Returned([val |-> k_0(args.r, args.t, args.delta, args.w_0, args.c)])
    /\ NoSweep /\ NoLoop /\ UNCHANGED <<fn, args, session, z, mesh_i, mesh_j>>

\* the call Npts(r, t, delta, Np, w_0, c)
Call_Npts ==
    /\ pc = "start" /\ fn = "Npts"
    /\ Returned([val |-> Npts(args.r, args.t, args.delta, args.Np, args.w_0, args.c)])
    /\ NoSweep /\ NoLoop /\ UNCHANGED <<fn, args, session, z, mesh_i, mesh_j>>

\* the call F(r, t, delta, Np, w_0, c, progress), up to the loop of simps
Call_F ==
    /\ pc = "start" /\ fn = "F"
    /\ Enter(F_enter(args.r, args.t, args.delta, args.Np, args.w_0, args.c,
                         args.progress))
    /\ NoSweep /\ UNCHANGED <<fn, args, session, z, mesh_i, mesh_j>>

\* one pass of the loop of simps, for the next item i of those it runs over
\* (the variable i counts the passes made):
\* integral += simps_point(f, a, a+i*Dx, Dx, params)
simps_step ==
    /\ pc = "simps" /\ i < Len(simps_items(frame))
    /\ Pass(Add(integral, simps_body(frame.g, frame.a, frame.Dx,
                                     simps_items(frame)[i + 1], frame.params)),
            simps_items(frame)[i + 1])
    /\ NoSweep /\ UNCHANGED <<fn, args, session, z, mesh_i, mesh_j, frame>>

\* a faulty variant of the return of simps: inside a sweep the value is
\* dropped, and the sweep moves on without appending it
simps_return_dropping ==
    /\ pc = "simps" /\ i >= Len(simps_items(frame))
    /\ IF fn \in {"simps", "F"}
       THEN /\ res' = [exc |-> "none",
                       out |-> [val |-> integral, iters |-> i, pts |-> pts,
                                Dx |-> frame.Dx, N |-> frame.N, b |-> frame.b]]
            /\ pc' = "done" /\ NoSweep
       ELSE /\ IF ri < Len(R) THEN ri' = ri + 1 /\ ti' = ti
                              ELSE ri' = 1 /\ ti' = ti + 1
            /\ pc' = "sweep" /\ UNCHANGED <<res, R, T, grid>>
    /\ NoLoop /\ UNCHANGED <<fn, args, session, z, mesh_i, mesh_j>>

\* return integral: to the session when it called simps or F, into the grid
\* when F_range (grid[-1].append after grid.append([]) at the start of a row)
\* or F_slice (grid.append) called F
simps_return ==
    /\ pc = "simps" /\ i >= Len(simps_items(frame))
    /\ CASE fn \in {"simps", "F"} ->
              /\ res' = [exc |-> "none",
                         out |-> [val |-> integral, iters |-> i, pts |-> pts,
                                  Dx |-> frame.Dx, N |-> frame.N, b |-> frame.b]]
              /\ pc' = "done" /\ NoSweep
         [] fn = "F_range" ->
              /\ grid' = IF ri = 1 THEN Append(grid, <<integral>>)
                                   ELSE [grid EXCEPT ![ti] = Append(@, integral)]
              /\ IF ri < Len(R) THEN ri' = ri + 1 /\ ti' = ti
                                ELSE ri' = 1 /\ ti' = ti + 1
              /\ pc' = "sweep" /\ UNCHANGED <<res, R, T>>
         [] fn = "F_slice" ->
              /\ grid' = Append(grid, integral) /\ ri' = ri + 1
              /\ pc' = "sweep" /\ UNCHANGED <<res, R, T, ti>>
    /\ NoLoop /\ UNCHANGED <<fn, args, session, z, mesh_i, mesh_j>>

\* F_range up to its loops: the summary is printed, then R and T are built
F_range_call ==
    /\ pc = "start" /\ fn = "F_range"
    /\ Sweep(F_range_summary(args.r_min, args.r_max, args.Nr, args.t_min, args.t_max,
                             args.Nt, args.delta, args.Np, args.w_0, args.c),
             linspace(args.r_min, args.r_max, args.Nr),
             linspace(args.t_min, args.t_max, args.Nt))
    /\ NoLoop /\ UNCHANGED <<fn, args, session, z, mesh_i, mesh_j>>

\* a faulty variant of the next grid point of F_range: the radii are taken
\* from the last to the first
F_range_step_downward ==
    /\ pc = "sweep" /\ fn = "F_range" /\ ti <= Len(F_range_items(args.progress, T))
    /\ Enter(F_enter(R[Len(R) + 1 - ri], F_range_items(args.progress, T)[ti],
                     args.delta, args.Np, args.w_0, args.c, FALSE))
    /\ NoSweep /\ UNCHANGED <<fn, args, session, z, mesh_i, mesh_j>>

\* the next grid point of F_range: F(r,t,delta,Np,w_0,c) is called for the
\* current t of the outer loop and r of the inner loop
F_range_step ==
    /\ pc = "sweep" /\ fn = "F_range" /\ ti <= Len(F_range_items(args.progress, T))
    /\ Enter(F_enter(R[ri], F_range_items(args.progress, T)[ti],
                     args.delta, args.Np, args.w_0, args.c, FALSE))
    /\ NoSweep /\ UNCHANGED <<fn, args, session, z, mesh_i, mesh_j>>

\* return np.array(grid)
F_range_return ==
    /\ pc = "sweep" /\ fn = "F_range" /\ ti > Len(F_range_items(args.progress, T))
    /\ res' = [exc |-> "none", out |-> grid]
    /\ pc' = "done"
    /\ NoSweep /\ NoLoop /\ UNCHANGED <<fn, args, session, z, mesh_i, mesh_j>>

\* F_slice up to its loop: the summary reads the global Nt, and T is built
\* from the globals t_min, t_max, Nt
F_slice_call ==
    /\ pc = "start" /\ fn = "F_slice"
    /\ IF session.defined
       THEN Sweep(F_slice_summary(args.r_min, args.r_max, args.Nr, args.t, args.delta,
                                  args.Np, args.w_0, args.c),
                  linspace(args.r_min, args.r_max, args.Nr),
                  linspace(session.t_min, session.t_max, session.Nt))
       ELSE Raised("NameError") /\ NoSweep
    /\ NoLoop /\ UNCHANGED <<fn, args, session, z, mesh_i, mesh_j>>

\* a faulty variant of the next grid point of F_slice: the time is taken from
\* the session's time grid
F_slice_step_session_time ==
    /\ pc = "sweep" /\ fn = "F_slice" /\ ri <= Len(F_slice_items(args.progress, R))
    /\ Enter(F_enter(F_slice_items(args.progress, R)[ri], T[1],
                     args.delta, args.Np, args.w_0, args.c, FALSE))
    /\ NoSweep /\ UNCHANGED <<fn, args, session, z, mesh_i, mesh_j>>

\* the next grid point of F_slice: F(r,t,delta,Np,w_0,c) is called
F_slice_step ==
    /\ pc = "sweep" /\ fn = "F_slice" /\ ri <= Len(F_slice_items(args.progress, R))
    /\ Enter(F_enter(F_slice_items(args.progress, R)[ri], args.t,
                     args.delta, args.Np, args.w_0, args.c, FALSE))
    /\ NoSweep /\ UNCHANGED <<fn, args, session, z, mesh_i, mesh_j>>

\* return np.array(grid)
F_slice_return ==
    /\ pc = "sweep" /\ fn = "F_slice" /\ ri > Len(F_slice_items(args.progress, R))
    /\ res' = [exc |-> "none", out |-> grid]
    /\ pc' = "done"
    /\ NoSweep /\ NoLoop /\ UNCHANGED <<fn, args, session, z, mesh_i, mesh_j>>

\* the call p(r, t, E_0, beta, C_p, c, w_0, sigma)
Call_p ==
    /\ pc = "start" /\ fn = "p"
    /\ Returned([val |-> p(args.r, args.t, args.E_0, args.beta, args.C_p, args.c,
                           args.w_0, args.sigma)])
    /\ NoSweep /\ NoLoop /\ UNCHANGED <<fn, args, session, z, mesh_i, mesh_j>>

\* the call signal_noise(r, beta, c, E_0, C_p, rho, T, sigma, w_0)
Call_signal_noise ==
    /\ pc = "start" /\ fn = "signal_noise"
    /\ Returned([val |-> signal_noise(args.r, args.beta, args.c, args.E_0, args.C_p,
                                      args.rho, args.T, args.sigma, args.w_0)])
    /\ NoSweep /\ NoLoop /\ UNCHANGED <<fn, args, session, z, mesh_i, mesh_j>>

\* mesh_wrapper up to its loops: z = np.zeros((len(X),len(T)))
mesh_wrapper_call ==
    /\ pc = "start" /\ fn = "mesh_wrapper"
    /\ z' = zeros(Len(args.X), Len(args.T))
    /\ mesh_i' = 0 /\ mesh_j' = 0 /\ pc' = "mesh"
    /\ NoSweep /\ NoLoop /\ UNCHANGED <<fn, args, session, res>>

\* the assignment z[j][i] = v was made, or raised: the loops move on to the
\* next j, or to the next i when the inner loop is over
Assigned(set) ==
    IF set.exc # "none"
    THEN Raised(set.exc) /\ UNCHANGED <<z, mesh_i, mesh_j>>
    ELSE /\ z' = set.arr
         /\ IF mesh_j + 1 < Len(args.T)
            THEN mesh_j' = mesh_j + 1 /\ mesh_i' = mesh_i
            ELSE mesh_j' = 0 /\ mesh_i' = mesh_i + 1
         /\ UNCHANGED <<res, pc>>

\* one pass of the inner loop: z[j][i] = f(X[i],T[j]) or f(X[i],T[j],*params)
mesh_wrapper_step ==
    /\ pc = "mesh" /\ mesh_i < Len(args.X) /\ mesh_j < Len(args.T)
    /\ Assigned(setitem(z, mesh_j, mesh_i,
                        mesh_f(args.f, args.X[mesh_i + 1], args.T[mesh_j + 1], args.params)))
    /\ NoSweep /\ NoLoop /\ UNCHANGED <<fn, args, session>>

\* return z, when both loops are over
mesh_wrapper_return ==
    /\ pc = "mesh" /\ (mesh_i >= Len(args.X) \/ mesh_j >= Len(args.T))
    /\ res' = [exc |-> "none", out |-> z]
    /\ pc' = "done"
    /\ NoSweep /\ NoLoop /\ UNCHANGED <<fn, args, session, z, mesh_i, mesh_j>>

Next ==
    \/ Call_f \/ Call_e \/ Call_simps \/ Call_k_0 \/ Call_Npts \/ Call_F \/ simps_step \/ simps_return
    \/ F_range_call \/ F_range_step \/ F_range_return
    \/ F_slice_call \/ F_slice_step \/ F_slice_return
    \/ Call_p \/ Call_signal_noise
    \/ mesh_wrapper_call \/ mesh_wrapper_step \/ mesh_wrapper_return

Spec == Init /\ [][Next]_vars

(***************************************************************************)
(* Properties                                                              *)
(***************************************************************************)

\* the call of the function name has ended
Done(name) == pc = "done" /\ fn = name

\* the sum over i = 0..n-1 of Simpson's rule on [a + i Dx, a + (i+1) Dx]
RECURSIVE CompositeSimpson(_, _, _, _)
CompositeSimpson(g, a, Dx, n) ==
    IF n = 0 THEN PyInt(0)
    ELSE Add(CompositeSimpson(g, a, Dx, n - 1),
             simps_point(g, Add(a, Mul(PyInt(n - 1), Dx)), Add(a, Mul(PyInt(n), Dx)),
                         Dx, <<>>))

\* C1: for a < b and a positive integer N, simps(g,a,b,N) returns the sum over
\* i = 0..N-1 of Simpson's rule on [x_i, x_i + Dx], Dx = (b-a)/N, x_i = a + i*Dx.
\* The code does not: pass i integrates [a, a + i*Dx].
C1_SimpsIsCompositeSimpson ==
    (Done("simps") /\ Lt(args.a, args.b) /\ args.N.d = 1 /\ args.N.p >= 1)
    => /\ res.exc = "none"
       /\ res.out.val = CompositeSimpson(args.g, args.a,
                                         Div(Sub(args.b, args.a), args.N), args.N.p)

\* F was called with arguments of the physical domain: all positive
ValidF ==
    /\ fn = "F"
    /\ Gt(args.r, PyInt(0)) /\ Gt(args.t, PyInt(0)) /\ Gt(args.delta, PyInt(0))
    /\ Gt(args.Np, PyInt(0)) /\ Gt(args.w_0, PyInt(0)) /\ Gt(args.c, PyInt(0))

\* ceil(x) of a rational
CeilV(x) == IF x.p >= 0 THEN (x.p + x.d - 1) \div x.d ELSE -((-x.p) \div x.d)

\* the subintervals integrated, read off the evaluation points ps (three per
\* pass: lower end, middle, upper end), start at lo, end at hi and are adjacent
Spans(ps, lo, hi) ==
    /\ Len(ps) >= 3
    /\ ps[1] = lo
    /\ ps[Len(ps)] = hi
    /\ \A m \in 1..((Len(ps) \div 3) - 1) : ps[3 * m + 1] = ps[3 * m]

\* C2: for arguments of the physical domain, the number of subintervals F
\* integrates is the positive integer ceil(Npts(...)), the width is
\* (k_0 - k_min) divided by that integer, and the subintervals span exactly
\* [k_min, k_0].  The code does not: it runs int(Npts) passes of width
\* (k_0 - k_min)/Npts over [k_min, k_min + i*Dx].
C2_CeilSubintervalsSpanRange ==
    (pc = "done" /\ ValidF)
    => /\ res.exc = "none"
       /\ res.out.iters >= 1
       /\ res.out.iters = CeilV(res.out.N)
       /\ res.out.Dx = Div(Sub(res.out.b, k_min), PyInt(res.out.iters))
       /\ Spans(res.out.pts, k_min, res.out.b)

\* C3: whenever 0 <= N < 1 (N = 0 included), simps returns 0 and raises
\* nothing.  The code does not for N = 0: Dx = abs(a-b)/Npts raises.
C3_TruncatedCountReturnsZero ==
    (Done("simps") /\ Le(PyInt(0), args.N) /\ Lt(args.N, PyInt(1)))
    => (res.exc = "none" /\ res.out.val = PyInt(0))

\* the radii and times of the grid the called sampler sweeps
SweptR == linspace(args.r_min, args.r_max, args.Nr)
SweptT == IF fn = "F_range" THEN linspace(args.t_min, args.t_max, args.Nt)
          ELSE <<args.t>>
\* the grid point (radius m, time n) has r = 0 or t = 0
ZeroPoint(m, n) == IsZero(SweptR[m]) \/ IsZero(SweptT[n])
\* the value the sampler returned for that grid point
GridValue(m, n) == IF fn = "F_range" THEN res.out[n][m] ELSE res.out[m]

\* C4: a sweep of F_range or F_slice over a grid with points at r = 0 or
\* t = 0 raises nothing, returns the full grid, and holds 0 at those points.
\* The code does not: such a sweep ends in ZeroDivisionError, ValueError
\* or OverflowError.
C4_ZeroPointsYieldZero ==
    (/\ pc = "done" /\ fn \in {"F_range", "F_slice"}
     /\ fn = "F_slice" => session.defined
     /\ \E m \in 1..Len(SweptR), n \in 1..Len(SweptT) : ZeroPoint(m, n))
    => /\ res.exc = "none"
       /\ \A m \in 1..Len(SweptR), n \in 1..Len(SweptT) :
              ZeroPoint(m, n) => IsZero(GridValue(m, n))

\* C5: F called with negative delta, negative Np, or non-positive w_0 or c
\* ends in an error and returns no number.  The code does not: nothing
\* validates the arguments.
C5_InvalidInputsRejected ==
    (/\ Done("F")
     /\ \/ Lt(args.delta, PyInt(0)) \/ Lt(args.Np, PyInt(0))
        \/ Le(args.w_0, PyInt(0)) \/ Le(args.c, PyInt(0)))
    => res.exc # "none"

\* the largest cap on the passes of one simps loop that is considered
IterCap == 16

\* C6: some fixed cap (at most IterCap) bounds the passes of the loop simps
\* starts for one evaluation point, for arguments of the physical domain.
\* The code has none: the loop runs int(Npts) passes, whatever Npts is.
C6_IterationsCapped == (pc = "simps" /\ ValidF) => frame.n <= IterCap

\* C7: for t < 0, f returns 0 from its first guard, whatever k, r, w_0, c are:
\* nothing was computed from them
C7_Causality ==
    (Done("f") /\ Lt(args.t, PyInt(0)))
    => /\ res.exc = "none"
       /\ res.out.val = PyInt(0)
       /\ res.out.branch = "t<0"

\* C7 happens: f returned for a t < 0 with r = 0 and c = 0, where the formulas
\* would divide by zero
C7_Witness == Done("f") /\ Lt(args.t, PyInt(0)) /\ IsZero(args.r) /\ IsZero(args.c)

\* C8: for k <= 0, f returns 0
C8_NonPositiveK ==
    (Done("f") /\ Le(args.k, PyInt(0))) => (res.exc = "none" /\ res.out.val = PyInt(0))

\* C8 happens: f returned for k = 0 and t >= 0, past the first guard
C8_Witness ==
    Done("f") /\ IsZero(args.k) /\ Le(PyInt(0), args.t) /\ res.out.branch = "k<=0"

\* C9 as stated: f(k,-r,t) equals f(k,r,t) and, where a formula is evaluated,
\* the product it uses is |r|*k (a negative r was replaced by |r|)
C9_SymmetricByFolding ==
    Done("f")
    => /\ res.out.val = f(args.k, Neg(args.r), args.t, args.w_0, args.c)
       /\ res.out.branch \in {"sub", "super"} => res.out.rk = Mul(AbsV(args.r), args.k)

\* C9, amended: f(k,-r,t,w_0,c) and f(k,r,t,w_0,c) end the same way, with the
\* same value (r enters only through sin(r*k)/(r*k), which is even; r itself
\* is not replaced)
C9_Symmetric ==
    Done("f") => res.out.val = f(args.k, Neg(args.r), args.t, args.w_0, args.c)

\* C9 happens: a formula was evaluated for a negative r and gave a finite value
C9_Witness ==
    /\ Done("f") /\ Lt(args.r, PyInt(0))
    /\ res.out.branch \in {"sub", "super"} /\ IsSym(res.out.val)

\* the branch f must take for k against k_crit, and the value it must return
BranchFor(k_crit) ==
    IF Lt(args.k, k_crit)
    THEN res.out.branch = "sub"
         /\ res.out.val = f_sub(args.k, args.r, args.t, args.w_0, args.c)
    ELSE IF Gt(args.k, k_crit)
    THEN res.out.branch = "super"
         /\ res.out.val = f_super(args.k, args.r, args.t, args.w_0, args.c)
    ELSE res.out.branch = "k=k_crit" /\ res.out.val = PyInt(0)

\* C10 as stated: for every t >= 0 and k > 0 (whatever w_0 and c), f takes the
\* sub-critical formula when k < 2*w_0/c, the super-critical one when
\* k > 2*w_0/c, and returns 0 when k = 2*w_0/c
C10_ThreeBranches ==
    (Done("f") /\ Le(PyInt(0), args.t) /\ Gt(args.k, PyInt(0)))
    => (res.exc = "none" /\ BranchFor(Div(Mul(PyInt(2), args.w_0), args.c)))

\* C10, amended: the same for c # 0; with c = 0 the comparison itself raises
\* ZeroDivisionError and no branch is taken
C10_ThreeBranchesNonzeroC ==
    (Done("f") /\ Le(PyInt(0), args.t) /\ Gt(args.k, PyInt(0)))
    => IF IsZero(args.c)
       THEN res.exc = "ZeroDivisionError"
       ELSE BranchFor(Div(Mul(PyInt(2), args.w_0), args.c))

\* C10 happens: f returned 0 at the boundary k = 2*w_0/c, with t >= 0 and k > 0
C10_Witness ==
    /\ Done("f") /\ Le(PyInt(0), args.t) /\ Gt(args.k, PyInt(0))
    /\ Eq(args.k, Div(Mul(PyInt(2), args.w_0), args.c))
    /\ res.out.branch = "k=k_crit"

\* C11: for t >= 0, k > 0, k # 2*w_0/c (w_0, c > 0) and r = 0, f raises nothing
\* and returns a finite number with the spatial factor sin(r*k)/(r*k) equal
\* to 1: the value of the factors before it.  The code does not: it computes
\* np.sin(0.0)/(0.0), which is nan.
C11_SpatialFactorOneAtZero ==
    (/\ Done("f") /\ Le(PyInt(0), args.t) /\ Gt(args.k, PyInt(0))
     /\ Gt(args.w_0, PyInt(0)) /\ Gt(args.c, PyInt(0))
     /\ ~Eq(args.k, Div(Mul(PyInt(2), args.w_0), args.c))
     /\ IsZero(args.r))
    => /\ res.exc = "none"
       /\ ~IsNaN(res.out.val)
       /\ res.out.branch = "sub"
            => res.out.val = f_sub_head(args.k, args.t, args.w_0, args.c)

\* C12: whenever f is called with positive w_0 and c, e(k,r,t) returns 0 by
\* the guard by which f(k,r,t,w_0,c) does (t < 0, k <= 0 or k = 2*w_0/c), and
\* otherwise takes the regime f takes.  The code does not: e compares k with
\* 2*w_0/c of the module-level constants, whatever f was called with.
C12_EnvelopeSharesPartition ==
    (Done("f") /\ Gt(args.w_0, PyInt(0)) /\ Gt(args.c, PyInt(0)))
    => e_trace(args.k, args.r, args.t).branch = res.out.branch

\* A finite float64 as a product: its magnitude is c times the product of
\* the atoms a[i][1] raised to the powers a[i][2], where c is a rational and
\* an atom is the result of np.exp, np.sin, ** 0.5 or of a sum
Unit(c) == [c |-> c, a |-> <<>>]
Inverse(a) == [m \in DOMAIN a |-> <<a[m][1], -a[m][2]>>]
RECURSIVE Factors(_)
Factors(v) ==
    IF IsNum(v) THEN Unit(AbsV(v))
    ELSE IF v.e[1] = "mul"
    THEN [c |-> Mul(Factors(v.e[2]).c, Factors(v.e[3]).c),
          a |-> Factors(v.e[2]).a \o Factors(v.e[3]).a]
    ELSE IF v.e[1] = "div"
    THEN [c |-> Div(Factors(v.e[2]).c, Factors(v.e[3]).c),
          a |-> Factors(v.e[2]).a \o Inverse(Factors(v.e[3]).a)]
    ELSE [c |-> PyInt(1), a |-> <<<<v.e, 1>>>>]

\* the power to which the atom x occurs in the product a
RECURSIVE Power(_, _)
Power(a, x) ==
    IF a = <<>> THEN 0
    ELSE (IF Head(a)[1] = x THEN Head(a)[2] ELSE 0) + Power(Tail(a), x)

\* x/y as a product, for finite x and y
Quotient(x, y) ==
    [c |-> Div(Factors(x).c, Factors(y).c), a |-> Factors(x).a \o Inverse(Factors(y).a)]

\* the product m is a rational of magnitude at most 1 times sines: every
\* other atom cancels.  Its magnitude is then at most 1 in exact arithmetic.
SinesOnly(m) ==
    /\ Le(m.c, PyInt(1))
    /\ \A n \in DOMAIN m.a :
          IF m.a[n][1][1] = "sin" THEN Power(m.a, m.a[n][1]) >= 0
          ELSE Power(m.a, m.a[n][1]) = 0
\* ... and some factor is below 1: the rational, or a sine (the sines that
\* are 1.0 exactly are rationals, not atoms)
BelowOne(m) ==
    \/ Lt(m.c, PyInt(1))
    \/ \E n \in DOMAIN m.a : m.a[n][1][1] = "sin" /\ Power(m.a, m.a[n][1]) > 0

IsFinite(x) == IsNum(x) \/ IsSym(x)

\* |x| <= y for the real numbers that x and y stand for
ExactLeAbs(x, y) == IsFinite(x) /\ IsFinite(y) /\ Sign(y) > 0 /\ SinesOnly(Quotient(x, y))

\* |x| <= y for the float64 values, whatever way their operations round: x
\* and y are results of the same operations, or their exact values differ
\* (by far more than the rounding does)
FloatLeAbs(x, y) == ExactLeAbs(x, y) /\ (AbsV(x) = y \/ BelowOne(Quotient(x, y)))

\* f was called with k > 0, k # k_crit, r > 0, t > 0 and the constants that e
\* reads
EnvelopeCase ==
    /\ Done("f") /\ Gt(args.k, PyInt(0)) /\ Gt(args.r, PyInt(0)) /\ Gt(args.t, PyInt(0))
    /\ args.w_0 = PyInt(w_0_global) /\ args.c = PyInt(c_global)
    /\ res.out.branch \in {"sub", "super"}

C14_PositiveWavenumbers ==
    (fn \in {"F", "F_range", "F_slice"} /\ frame # None)
    => /\ Mul(frame.a, PyInt(KMinInv)) = PyInt(1)
       /\ \A m \in DOMAIN pts : Gt(pts[m], PyInt(0))

\* C14 happens: an integral of F has run two passes or more, for arguments of
\* the physical domain
C14_Witness == ValidF /\ pc = "simps" /\ i >= 2 /\ Len(pts) = 3 * i

\* C15: for positive w_0 and c, whenever F integrates, either k_0 > k_min, or
\* no pass is run, nothing is evaluated and F returns 0.  The code does not:
\* nothing compares k_0 with 1e-4, and simps steps upward from 1e-4 by
\* abs(a-b)/Npts whichever bound is the larger.
C15_CutoffAboveLowerBound ==
    (/\ fn = "F" /\ Gt(args.w_0, PyInt(0)) /\ Gt(args.c, PyInt(0))
     /\ frame # None /\ ~Gt(frame.b, frame.a))
    => /\ i = 0 /\ pts = <<>>
       /\ pc = "done" => (res.exc = "none" /\ IsZero(res.out.val))

\* a sampler returned
Swept(name) == Done(name) /\ res.exc = "none"

\* C16: whenever F_range returns for Nr >= 1 and Nt >= 1, what it returns has
\* exactly Nt rows of exactly Nr entries; whenever F_slice returns for
\* Nr >= 1, what it returns has exactly Nr entries
C16_GridShape ==
    /\ (Swept("F_range") /\ args.Nr >= 1 /\ args.Nt >= 1)
       => /\ Len(res.out) = args.Nt
          /\ \A n \in DOMAIN res.out : Len(res.out[n]) = args.Nr
    /\ (Swept("F_slice") /\ args.Nr >= 1) => Len(res.out) = args.Nr

\* C16 happens: F_range returned a grid of at least two rows and more columns
C16_Witness == Swept("F_range") /\ args.Nt >= 2 /\ args.Nr > args.Nt

\* C17: whenever F_range returns (progress True or False), row n, column m of
\* the grid is F(R[m], T[n], delta, Np, w_0, c) for the evenly spaced R and T
C17_SweepOrder ==
    Swept("F_range")
    => /\ Len(res.out) = Len(SweptT)
       /\ \A n \in DOMAIN res.out :
             /\ Len(res.out[n]) = Len(SweptR)
             /\ \A m \in DOMAIN res.out[n] :
                   res.out[n][m] = F_value(SweptR[m], SweptT[n], args.delta, args.Np,
                                           args.w_0, args.c, FALSE)

\* C17 happens: F_range returned a grid over two distinct times and two
\* distinct radii, with a nonzero integral in it
C17_Witness ==
    /\ Swept("F_range") /\ args.Nr = 2 /\ args.Nt = 2
    /\ SweptR[1] # SweptR[2] /\ SweptT[1] # SweptT[2]
    /\ IsSym(res.out[2][2])

\* the number of values in the grid of a running sweep, and the number of
\* grid points that precede the current one in the order of the sweep
RECURSIVE Cells(_)
Cells(g) == IF g = <<>> THEN 0 ELSE Len(Head(g)) + Cells(Tail(g))
Held == IF fn = "F_range" THEN Cells(grid) ELSE Len(grid)
Before == IF fn = "F_range" THEN (ti - 1) * Len(R) + (ri - 1) ELSE ri - 1

\* C18: throughout a sweep of F_range or F_slice, the grid holds the value of
\* every grid point before the current one and of no other, and the integral
\* in progress (if any) is that of the current grid point: a point's integral
\* is complete and appended before the next one begins
C18_OnePointAtATime ==
    (fn \in {"F_range", "F_slice"} /\ pc \in {"sweep", "simps"})
    => /\ Held = Before
       /\ pc = "simps"
            => /\ frame.params[1] = R[ri]
               /\ frame.params[2] = (IF fn = "F_range" THEN T[ti] ELSE args.t)

\* C18 happens: the integral of the fourth grid point of F_range is in progress
C18_Witness == fn = "F_range" /\ pc = "simps" /\ ti = 2 /\ ri = 2 /\ Len(R) = 2 /\ i >= 1

\* how a call ended: the exception raised, or the value returned
Outcome(v) ==
    [exc |-> IF IsRaise(v) THEN v.exc ELSE "none", val |-> IF IsRaise(v) THEN None ELSE v]
RECURSIVE Flat(_)
Flat(rows) == IF rows = <<>> THEN <<>> ELSE Head(rows) \o Flat(Tail(rows))
\* ... for a sweep with the summary s over the rows of values
SweepOutcome(s, rows, out) ==
    IF IsRaise(s) THEN Outcome(s)
    ELSE IF IsRaise(FirstRaise(Flat(rows))) THEN Outcome(FirstRaise(Flat(rows)))
    ELSE [exc |-> "none", val |-> out]

\* the grid F_range computes over the times ts, and the row F_slice computes
\* over the radii rs
RangeRows(ts) ==
    [n \in DOMAIN ts |->
        [m \in DOMAIN SweptR |->
            F_value(SweptR[m], ts[n], args.delta, args.Np, args.w_0, args.c, FALSE)]]
SliceRow(rs) ==
    [m \in DOMAIN rs |->
        F_value(rs[m], args.t, args.delta, args.Np, args.w_0, args.c, FALSE)]

\* how the call of the session ends when made with the given progress flag
OutcomeWith(progress) ==
    CASE fn = "simps" ->
            Outcome(simps_value(simps_enter(args.g, args.a, args.b, args.N, progress, <<>>)))
      [] fn = "F" ->
            Outcome(F_value(args.r, args.t, args.delta, args.Np, args.w_0, args.c, progress))
      [] fn = "F_range" ->
            SweepOutcome(F_range_summary(args.r_min, args.r_max, args.Nr, args.t_min,
                                         args.t_max, args.Nt, args.delta, args.Np,
                                         args.w_0, args.c),
                         RangeRows(F_range_items(progress, SweptT)),
                         RangeRows(F_range_items(progress, SweptT)))
      [] fn = "F_slice" ->
            IF ~session.defined THEN Outcome(Raise("NameError"))
            ELSE SweepOutcome(F_slice_summary(args.r_min, args.r_max, args.Nr, args.t,
                                              args.delta, args.Np, args.w_0, args.c),
                              <<SliceRow(F_slice_items(progress, SweptR))>>,
                              SliceRow(F_slice_items(progress, SweptR)))

\* how the call of the session ended
Ended ==
    [exc |-> res.exc,
     val |-> IF res.exc # "none" THEN None
             ELSE IF fn \in {"simps", "F"} THEN res.out.val ELSE res.out]

\* C19: a call of simps, F, F_range or F_slice ends as the same call with the
\* other value of progress does: the same value returned, or the same
\* exception raised
C19_ProgressIsObservabilityOnly ==
    (pc = "done" /\ fn \in {"simps", "F", "F_range", "F_slice"})
    => Ended = OutcomeWith(~args.progress)

\* C19 happens: F, called with progress = True, ran its passes over
\* tqdm(range(...)) and returned a nonzero integral
C19_Witness ==
    /\ Done("F") /\ args.progress /\ res.exc = "none"
    /\ res.out.iters >= 2 /\ IsSym(res.out.val)

\* k_0 was called with r, t, w_0, c positive and 0 < delta < 1
CutoffCase ==
    /\ Done("k_0")
    /\ Gt(args.r, PyInt(0)) /\ Gt(args.t, PyInt(0))
    /\ Gt(args.w_0, PyInt(0)) /\ Gt(args.c, PyInt(0))
    /\ Gt(args.delta, PyInt(0)) /\ Lt(args.delta, PyInt(1))

\* C20: for r, t, w_0, c positive and 0 < delta < 1, k_0 returns a number
\* that is at least k_0 at every larger delta below 1 (r, t, w_0, c the
\* same), and at least 2*w_0/c
C20_CutoffMonotone ==
    CutoffCase
    => /\ res.exc = "none"
       /\ \A d2 \in Deltas :
             (Le(args.delta, d2) /\ Lt(d2, PyInt(1)))
             => Le(k_0(args.r, args.t, d2, args.w_0, args.c), res.out.val)
       /\ Le(Div(Mul(PyInt(2), args.w_0), args.c), res.out.val)

\* C20 happens: k_0 returned a cutoff larger than that of a larger tolerance
C20_Witness ==
    /\ CutoffCase
    /\ \E d2 \in Deltas :
          /\ Lt(args.delta, d2) /\ Lt(d2, PyInt(1))
          /\ Gt(res.out.val, k_0(args.r, args.t, d2, args.w_0, args.c))

\* Npts returned a number for arguments at which k_0 is a number too
CountCase ==
    /\ Done("Npts") /\ res.exc = "none" /\ IsNum(res.out.val)
    /\ IsNum(k_0(args.r, args.t, args.delta, args.w_0, args.c))

\* C21: wherever Npts and k_0 are both defined (both return a number),
\* Npts(r,t,delta,Np,w_0,c) has the value of k_0(r,t,delta,w_0,c) * r/(2*pi) * Np
\* (the values compared as real numbers): the two share one square-root term
C21_CountFollowsCutoff ==
    CountCase
    => Eq(res.out.val,
          Mul(Div(Mul(k_0(args.r, args.t, args.delta, args.w_0, args.c), args.r),
                  Mul(PyInt(2), Pi)),
              args.Np))

\* C21 happens: Npts returned a positive count where the damping factor
\* exp(-2 w_0 t) is below 1
C21_Witness ==
    /\ CountCase /\ Gt(res.out.val, PyInt(0))
    /\ Gt(Mul(args.w_0, args.t), PyInt(0))

\* C22: whenever Npts returns a number it is
\* (w_0*r*Np)/(c*pi) * sqrt(16*pi^4*c^2/(delta^2*r^2*t^2) + 1), with no
\* factor exp(-2*w_0*t) under the square root
C22_CountHasNoDamping ==
    (Done("Npts") /\ res.exc = "none" /\ IsNum(res.out.val))
    => Eq(res.out.val,
          Npts_undamped(args.r, args.t, args.delta, args.Np, args.w_0, args.c))

\* how the sweep of the session's F_range or F_slice call ends when the
\* summary is not computed: R and T are built and the loops run
SweepAlone ==
    IF fn = "F_range"
    THEN SweepOutcome(None, RangeRows(F_range_items(args.progress, SweptT)),
                      RangeRows(F_range_items(args.progress, SweptT)))
    ELSE IF ~session.defined THEN Outcome(Raise("NameError"))
    ELSE SweepOutcome(None, <<SliceRow(F_slice_items(args.progress, SweptR))>>,
                      SliceRow(F_slice_items(args.progress, SweptR)))

\* C23: whenever the sweep of an F_range or F_slice call returns a grid when
\* run without the summary, the call itself returns that grid: computing
\* the summary neither raises nor changes what is returned
C23_SummaryIsInformational ==
    (pc = "done" /\ fn \in {"F_range", "F_slice"} /\ SweepAlone.exc = "none")
    => Ended = SweepAlone

\* C24: a call of simps with N >= 1 (from the session or from F) raises
\* nothing before its loop when called with numbers; its loop never makes
\* more than int(N) passes and evaluates the integrand 3 times in each pass;
\* when it returns it has made exactly int(N) passes and 3*int(N) evaluations
C24_ExactlyIntNPasses ==
    /\ (Done("simps") /\ Le(PyInt(1), args.N)) => res.exc = "none"
    /\ (pc = "simps" /\ Le(PyInt(1), frame.N))
       => /\ i <= IntV(frame.N).p
          /\ Len(pts) = 3 * i
    /\ (pc = "done" /\ fn \in {"simps", "F"} /\ res.exc = "none" /\ Le(PyInt(1), res.out.N))
       => /\ res.out.iters = IntV(res.out.N).p
          /\ Len(res.out.pts) = 3 * IntV(res.out.N).p

\* C24 happens: simps returned for N = 2.5 after its two passes
C24_Witness ==
    /\ Done("simps") /\ res.exc = "none" /\ args.N = Py(5, 2)
    /\ args.a # args.b /\ res.out.iters = 2

\* the row and the column of the grid point a sweep of F_range has just
\* finished
LastRow == IF ri > 1 THEN ti ELSE ti - 1
LastColumn == IF ri > 1 THEN ri - 1 ELSE Len(R)

\* C25: every integral starts from the accumulator 0 with nothing evaluated;
\* the value a sweep has just appended to its grid is
\* F(r, t, delta, Np, w_0, c) of its own grid point, whatever was evaluated
\* before it; and a single call of F returns that same value
C25_NoSharedState ==
    /\ (pc = "simps" /\ i = 0) => (integral = PyInt(0) /\ pts = <<>>)
    /\ (fn = "F_range" /\ pc = "sweep" /\ grid # <<>>)
       => grid[LastRow][LastColumn]
            = F_value(R[LastColumn], T[LastRow], args.delta, args.Np, args.w_0, args.c, FALSE)
    /\ (fn = "F_slice" /\ pc = "sweep" /\ grid # <<>>)
       => grid[ri - 1]
            = F_value(R[ri - 1], args.t, args.delta, args.Np, args.w_0, args.c, FALSE)
    /\ (Done("F") /\ res.exc = "none")
       => res.out.val = F_value(args.r, args.t, args.delta, args.Np, args.w_0, args.c,
                                args.progress)

\* C25 happens: a sweep of F_range holds a nonzero integral that was computed
\* after a different value at another radius
C25_Witness ==
    /\ fn = "F_range" /\ pc = "sweep" /\ ti = 2 /\ Len(R) = 2
    /\ IsSym(grid[1][2]) /\ grid[1][1] # grid[1][2]

\* x lies in the closed interval between a and b, in either order
Between(x, a, b) == (Le(a, x) /\ Le(x, b)) \/ (Le(b, x) /\ Le(x, a))

\* C26: whenever simps(g, a, b, N) returns for N >= 1, every point at which
\* it evaluated g lies in the closed interval between a and b, and b is one
\* of those points
C26_PointsWithinRange ==
    (Done("simps") /\ res.exc = "none" /\ Le(PyInt(1), args.N))
    => /\ \A m \in DOMAIN res.out.pts : Between(res.out.pts[m], args.a, args.b)
       /\ \E m \in DOMAIN res.out.pts : Eq(res.out.pts[m], args.b)

\* C27: a call of F_slice ends as its arguments alone determine, whether or
\* not the session defines t_min, t_max and Nt: it raises what its summary or
\* one of its grid points raises, and otherwise returns the row of
\* F(r, t, ...) over the Nr evenly spaced radii
C27_SliceReadsOnlyItsArguments ==
    Done("F_slice")
    => Ended = SweepOutcome(F_slice_summary(args.r_min, args.r_max, args.Nr, args.t,
                                            args.delta, args.Np, args.w_0, args.c),
                            <<SliceRow(F_slice_items(args.progress, SweptR))>>,
                            SliceRow(F_slice_items(args.progress, SweptR)))

\* how F_range(r_min, r_max, Nr, t_min, t_max, Nt, delta, Np, w_0, c) ends,
\* for the radii and parameters of the session's call
RangeOutcome(t_min, t_max, Nt) ==
    SweepOutcome(F_range_summary(args.r_min, args.r_max, args.Nr, t_min, t_max, Nt,
                                 args.delta, args.Np, args.w_0, args.c),
                 RangeRows(linspace(t_min, t_max, Nt)),
                 RangeRows(linspace(t_min, t_max, Nt)))

\* the value v as a real number: a float64 and the Python number of the same
\* value are the same, throughout the operations that built v
RECURSIVE Plain(_)
Plain(v) ==
    IF IsNum(v) THEN [v EXCEPT !.np = FALSE]
    ELSE IF IsSym(v)
    THEN Sym(v.s, [m \in DOMAIN v.e |-> IF m = 1 THEN v.e[1] ELSE Plain(v.e[m])])
    ELSE v
PlainRow(row) == [m \in DOMAIN row |-> Plain(row[m])]

\* C28: whenever F_slice(r_min, r_max, Nr, t, ...) returns, and t is entry n of
\* the time grid of a call F_range(r_min, r_max, Nr, t_min, t_max, Nt, ...)
\* that returns (over the time grids of one or two times), what F_slice
\* returned is row n of that grid, element for element (the elements compared
\* as real numbers)
C28_SliceIsRowOfRange ==
    Swept("F_slice")
    => \A t_min \in Ints(-1, 1), t_max \in Ints(-1, 1), Nt \in 1..2 :
          (\E n \in 1..Nt : Eq(linspace(t_min, t_max, Nt)[n], args.t))
          => LET whole == RangeOutcome(t_min, t_max, Nt)
             IN  \A n \in 1..Nt :
                    (Eq(linspace(t_min, t_max, Nt)[n], args.t) /\ whole.exc = "none")
                    => PlainRow(res.out) = PlainRow(whole.val[n])

\* C28 happens: F_slice returned a row with a nonzero integral at a time that
\* is the last of two distinct times of a time grid
C28_Witness ==
    /\ Swept("F_slice") /\ args.Nr >= 2
    /\ \E m \in DOMAIN res.out : IsSym(res.out[m])
    /\ \E t_min \in Ints(-1, 1) :
          /\ ~Eq(t_min, args.t)
          /\ RangeOutcome(t_min, args.t, 2).exc = "none"

\* C29: every call mesh_wrapper(X, T, f, params) returns, without an
\* IndexError, an array of len(T) rows of len(X) entries whose row j, column i
\* is f(X[i], T[j], *params)
C29_MeshMatchesMeshgrid ==
    Done("mesh_wrapper")
    => /\ res.exc = "none"
       /\ Len(res.out) = Len(args.T)
       /\ \A b \in DOMAIN res.out :
             /\ Len(res.out[b]) = Len(args.X)
             /\ \A a \in DOMAIN res.out[b] :
                   res.out[b][a] = mesh_f(args.f, args.X[a], args.T[b], args.params)

\* C30: p(r, t) is what p(-r, t) is (the same value, or the same exception
\* raised), and for r = 0 it returns 0 without raising; signal_noise(r) is
\* what signal_noise(-r) is, and for r = 0 it returns 0 without raising
C30_SignFoldedOriginGuarded ==
    /\ Done("p")
       => /\ res.out.val = p(Neg(args.r), args.t, args.E_0, args.beta, args.C_p, args.c,
                             args.w_0, args.sigma)
          /\ IsZero(args.r) => (res.exc = "none" /\ res.out.val = PyInt(0))
    /\ Done("signal_noise")
       => /\ res.out.val = signal_noise(Neg(args.r), args.beta, args.c, args.E_0, args.C_p,
                                        args.rho, args.T, args.sigma, args.w_0)
          /\ IsZero(args.r) => (res.exc = "none" /\ res.out.val = PyInt(0))

\* C30 happens: p returned a nonzero pressure for a negative r
C30_Witness ==
    /\ Done("p") /\ Lt(args.r, PyInt(0)) /\ res.exc = "none" /\ IsSym(res.out.val)

====
